---- MODULE Spec2Model ----
(***************************************************************************)
(* A model of the TurboFan graph reducer (src/compiler/graph-reducer.cc):  *)
(* the driver loop of ReduceNode, the resumable depth-first traversal of   *)
(* ReduceTop, the reducer dispatch of Reduce, and the replacement          *)
(* protocols Replace / ReplaceWithValue.                                   *)
(*                                                                         *)
(* The engine state is carried in a record w ("world") so that the nested  *)
(* calls of the code (ReduceTop -> Reduce -> reducer -> ReplaceWithValue   *)
(* -> Replace -> Revisit) compose as operators; the variables of the       *)
(* module are the fields of that record, history variables, and the        *)
(* reference state of the side-by-side runs.                               *)
(***************************************************************************)
EXTENDS Integers, Sequences, FiniteSets, TLC

\* ------------------------------------------------------------------ bounds
\* Size of the node arena: initial graphs use the first ids, reducers that
\* create nodes take the next free id while one is left.
MaxNodes == 12
\* Number of registered reducers (reducers_).
NumReducers == 2
\* How many Revisit requests the finalizers may issue in one run.
MaxFinalizeRevisits == 1

\* ------------------------------------------------------- program constants
kUnvisited == 0
kRevisit == 1
kOnStack == 2
kVisited == 3

\* std::numeric_limits<NodeId>::max(), the watermark of the two-argument
\* Replace. NodeId is uint32_t (2^32 - 1); the model checker's integers stop
\* at 2^31 - 1, which is likewise above every node id of the arena.
kMaxNodeId == 2147483647

Nodes == 0 .. (MaxNodes - 1)
Reducers == 1 .. NumReducers
NoNode == -1

\* ---------------------------------------------------------------- IR graph
\* Operator metadata: <<value in, effect in, control in, value out,
\* effect out, control out>>.
OpSig(op) ==
  CASE op = "Start"       -> <<0, 0, 0, 1, 1, 1>>
    [] op = "Dead"        -> <<0, 0, 0, 1, 1, 1>>
    [] op = "Const"       -> <<0, 0, 0, 1, 0, 0>>
    [] op = "Id"          -> <<1, 0, 0, 1, 0, 0>>
    [] op = "Conv"        -> <<1, 0, 0, 1, 0, 0>>
    [] op = "Raw"         -> <<1, 0, 0, 1, 0, 0>>
    [] op = "Inc"         -> <<1, 0, 0, 1, 0, 0>>
    [] op = "Wide"        -> <<1, 0, 0, 1, 0, 0>>
    [] op = "Narrow"      -> <<1, 0, 0, 1, 0, 0>>
    [] op = "Trunc"       -> <<1, 0, 0, 1, 0, 0>>
    [] op = "Add"         -> <<2, 0, 0, 1, 0, 0>>
    [] op = "Phi"         -> <<2, 0, 0, 1, 0, 0>>
    [] op = "Sub"         -> <<2, 0, 0, 1, 0, 0>>
    [] op = "Call"        -> <<1, 1, 1, 1, 1, 1>>
    [] op = "IfSuccess"   -> <<0, 0, 1, 0, 0, 1>>
    [] op = "IfException" -> <<0, 0, 1, 1, 1, 1>>
    [] op = "Merge"       -> <<0, 0, 1, 0, 0, 1>>
    [] op = "Return"      -> <<1, 1, 1, 0, 0, 0>>
    [] OTHER              -> <<0, 0, 0, 0, 0, 0>>

kReplacementPlaceholder == "ReplacementPlaceholder"

\* A node: its operator, the output arities it carries as a placeholder, its
\* inputs (NoNode is a null input) and its use list, the edges <<user,
\* position>> that read it, newest first.
BlankNode == [op |-> "None", ph |-> <<0, 0, 0>>, inputs |-> <<>>, uses |-> <<>>]

MkNode(op, ins) == [op |-> op, ph |-> <<0, 0, 0>>, inputs |-> ins, uses |-> <<>>]

\* op()->ValueOutputCount() etc.; a placeholder carries its arities.
ValueOutputCount(nd) ==
  IF nd.op = kReplacementPlaceholder THEN nd.ph[1] ELSE OpSig(nd.op)[4]
EffectOutputCount(nd) ==
  IF nd.op = kReplacementPlaceholder THEN nd.ph[2] ELSE OpSig(nd.op)[5]
ControlOutputCount(nd) ==
  IF nd.op = kReplacementPlaceholder THEN nd.ph[3] ELSE OpSig(nd.op)[6]

\* Edge kind of input position i (1-based) of a node: value inputs first,
\* then effect inputs, then control inputs.
EdgeKind(nd, i) ==
  IF nd.op = kReplacementPlaceholder
  THEN LET v == nd.ph[1]  e == nd.ph[2]
       IN  IF i <= v THEN "value" ELSE IF i <= v + e THEN "effect" ELSE "control"
  ELSE LET s == OpSig(nd.op)
       IN  IF i <= s[1] THEN "value"
           ELSE IF i <= s[1] + s[2] THEN "effect" ELSE "control"

IsControlEdge(g, e) == EdgeKind(g[e[1]], e[2]) = "control"
IsEffectEdge(g, e) == EdgeKind(g[e[1]], e[2]) = "effect"

\* NodeProperties::GetEffectInput / GetControlInput.
GetEffectInput(nd) == nd.inputs[OpSig(nd.op)[1] + 1]
GetControlInput(nd) == nd.inputs[OpSig(nd.op)[1] + OpSig(nd.op)[2] + 1]

\* Node::IsDead: InputCount() > 0 && InputAt(0) == nullptr. A node without
\* inputs is never dead.
IsDead(g, n) == Len(g[n].inputs) > 0 /\ g[n].inputs[1] = NoNode

\* Node::RemoveUse / Node::AppendUse: a use list is linked at its head.
RemoveUse(g, to, u, i) ==
  [g EXCEPT ![to].uses = SelectSeq(@, LAMBDA e : e # <<u, i>>)]

AppendUse(g, to, u, i) == [g EXCEPT ![to].uses = <<<<u, i>>>> \o @]

\* The two halves of an edge update: unlink from the old target, link to the
\* new one.
UnlinkInput(g, u, i) ==
  IF g[u].inputs[i] # NoNode THEN RemoveUse(g, g[u].inputs[i], u, i) ELSE g

LinkInput(g, u, i, to) ==
  IF to # NoNode
  THEN AppendUse([g EXCEPT ![u].inputs[i] = to], to, u, i)
  ELSE [g EXCEPT ![u].inputs[i] = to]

\* Node::ReplaceInput / Edge::UpdateTo; position i is 1-based.
ReplaceInput(g, u, i, to) ==
  IF g[u].inputs[i] = to THEN g ELSE LinkInput(UnlinkInput(g, u, i), u, i, to)

\* Node::NullAllInputs from position i on: every input becomes null and
\* leaves its target's use list; the input count stays.
RECURSIVE NullInputsFrom(_, _, _)
NullInputsFrom(g, n, i) ==
  IF i > Len(g[n].inputs) THEN g
  ELSE NullInputsFrom(ReplaceInput(g, n, i, NoNode), n, i + 1)

\* Node::Kill.
Kill(g, n) == NullInputsFrom(g, n, 1)

\* Node::TrimInputCount(k): the inputs after the first k are unlinked and
\* dropped.
TrimInputCount(g, n, k) ==
  [NullInputsFrom(g, n, k + 1) EXCEPT ![n].inputs = SubSeq(@, 1, k)]

\* Node::AppendInput.
AppendInput(g, n, to) ==
  AppendUse([g EXCEPT ![n].inputs = Append(@, to)], to, n, Len(g[n].inputs) + 1)

RECURSIVE AppendInputs(_, _, _, _)
AppendInputs(g, n, to, k) ==
  IF k = 0 THEN g ELSE AppendInputs(AppendInput(g, n, to), n, to, k - 1)

\* Node::New links the inputs of a node in order, first input first.
RECURSIVE LinkInputsFrom(_, _, _)
LinkInputsFrom(g, n, i) ==
  IF i > Len(g[n].inputs) THEN g
  ELSE LinkInputsFrom(AppendUse(g, g[n].inputs[i], n, i), n, i + 1)

\* A graph whose nodes n .. cnt-1 are still to be linked, built in id order.
RECURSIVE LinkNodesFrom(_, _, _)
LinkNodesFrom(g, n, cnt) ==
  IF n >= cnt THEN g ELSE LinkNodesFrom(LinkInputsFrom(g, n, 1), n + 1, cnt)

\* node->use_edges() / node->uses(): the use list, newest use first.
UseEdges(g, n) == g[n].uses

Users(g, n) == {u \in Nodes : \E i \in 1 .. Len(g[u].inputs) : g[u].inputs[i] = n}

\* Mutant of ChasePlaceholder: one step through input 0 instead of the loop.
ChasePlaceholderOneStep(g, n) ==
  IF g[n].op = kReplacementPlaceholder THEN g[n].inputs[1] ELSE n

\* Follow a placeholder chain through input 0 to the first non-placeholder.
RECURSIVE ChasePlaceholder(_, _)
ChasePlaceholder(g, n) ==
  IF g[n].op = kReplacementPlaceholder
  THEN ChasePlaceholder(g, g[n].inputs[1])
  ELSE n

\* ------------------------------------------------------------- engine state
VARIABLES
  graph,               \* node id -> node
  count,               \* graph()->NodeCount()
  start, end,          \* graph()->start(), graph()->end()
  dead_,               \* the sentinel Dead node
  state,               \* state_: node id -> visit state
  stack,               \* stack_: frames [node, input_index], top is last
  revisit,             \* revisit_: FIFO, front is first
  nb_traversed_uses, nb_visited_nodes, revisit_all_nodes,
  threshold, placeholder_flag,
  pc,                  \* "idle", "loop", "done"
  fin,                 \* history: Finalize calls per reducer in this run
  finBudget,           \* revisit requests the finalizers may still issue
  hist,                \* history of the last driver step
  armed,               \* history: nodes enqueued because an input was replaced
  owed,                \* history: users of a changed node not yet reduced again
  twin,                \* reference engine state of the side-by-side runs
  scanned              \* side-by-side run: nodes reduced since the last Replace

vars == <<graph, count, start, end, dead_, state, stack, revisit,
          nb_traversed_uses, nb_visited_nodes, revisit_all_nodes,
          threshold, placeholder_flag, pc, fin, finBudget, hist,
          armed, owed, twin, scanned>>

World ==
  [graph |-> graph, count |-> count, start |-> start, end |-> end,
   dead_ |-> dead_, state |-> state, stack |-> stack, revisit |-> revisit,
   nb_traversed_uses |-> nb_traversed_uses,
   nb_visited_nodes |-> nb_visited_nodes,
   revisit_all_nodes |-> revisit_all_nodes,
   threshold |-> threshold, placeholder_flag |-> placeholder_flag]

SetWorld(w) ==
  /\ graph' = w.graph
  /\ count' = w.count
  /\ start' = w.start
  /\ end' = w.end
  /\ dead_' = w.dead_
  /\ state' = w.state
  /\ stack' = w.stack
  /\ revisit' = w.revisit
  /\ nb_traversed_uses' = w.nb_traversed_uses
  /\ nb_visited_nodes' = w.nb_visited_nodes
  /\ revisit_all_nodes' = w.revisit_all_nodes
  /\ threshold' = w.threshold
  /\ placeholder_flag' = w.placeholder_flag

\* F(x) with x computed once: the statements of the code run in sequence,
\* each on the state its predecessor left.
Bind(x, F(_)) == CHOOSE r \in {F(v) : v \in {x}} : TRUE

\* ------------------------------------------------- stack and revisit queue
Pop(w) ==
  LET node == w.stack[Len(w.stack)].node
  IN  [w EXCEPT !.state[node] = kVisited,
                !.nb_visited_nodes = @ + 1,
                !.stack = SubSeq(@, 1, Len(@) - 1)]

Push(w, node) ==
  [w EXCEPT !.state[node] = kOnStack,
            !.stack = Append(@, [node |-> node, input_index |-> 0])]

\* Mutant of RecursePushes: a node waiting for revisit is not pushed.
RecursePushesUnvisitedOnly(w, node) == w.state[node] = kUnvisited

\* Recurse returns whether it pushed; the pushed world is Push(w, node).
RecursePushes(w, node) == ~(w.state[node] > kRevisit)

Recurse(w, node) == IF RecursePushes(w, node) THEN Push(w, node) ELSE w

\* Mutant of Revisit: the state test lets a node on the stack through.
RevisitOnStackToo(w, node) ==
  IF w.state[node] >= kOnStack
  THEN [w EXCEPT !.nb_traversed_uses = @ + 1,
                 !.state[node] = kRevisit,
                 !.revisit = Append(@, node)]
  ELSE w

Revisit(w, node) ==
  IF w.state[node] = kVisited
  THEN [w EXCEPT !.nb_traversed_uses = @ + 1,
                 !.state[node] = kRevisit,
                 !.revisit = Append(@, node)]
  ELSE w

\* update_and_get_revisit_all_nodes(nb_visited_nodes()): the resweep
\* heuristic. The flag is raised when the traversed uses exceed the
\* threshold percentage of the visited nodes and stays raised until the
\* driver clears it.
RevisitAllAfterUpdate(w) ==
  \/ w.revisit_all_nodes
  \/ w.nb_traversed_uses * 100 > w.threshold * w.nb_visited_nodes

UpdateRevisitAll(w) == [w EXCEPT !.revisit_all_nodes = RevisitAllAfterUpdate(w)]

\* ------------------------------------------------------ replacement protocols
\* Eager rewiring (lines 266-273): every use edge of node is redirected to
\* the replacement, its owner is revisited unless it is node, node is killed.
\* One iteration: edge.UpdateTo(replacement); if (user != node) Revisit(user).
UpdateEdge(w, node, replacement, e) ==
  Bind([w EXCEPT !.graph = ReplaceInput(@, e[1], e[2], replacement)],
       LAMBDA w1 : IF e[1] # node THEN Revisit(w1, e[1]) ELSE w1)

RECURSIVE EagerLoop(_, _, _, _, _)
EagerLoop(w, node, replacement, edges, k) ==
  IF k > Len(edges) THEN w
  ELSE Bind(UpdateEdge(w, node, replacement, edges[k]),
            LAMBDA w2 : EagerLoop(w2, node, replacement, edges, k + 1))

\* Mutant of ReplaceEager: node is left alive after its edges moved.
ReplaceEagerNoKill(w, node, replacement) ==
  Bind(UseEdges(w.graph, node),
       LAMBDA edges : EagerLoop(w, node, replacement, edges, 1))

ReplaceEager(w, node, replacement) ==
  Bind(UseEdges(w.graph, node),
       LAMBDA edges :
         Bind(EagerLoop(w, node, replacement, edges, 1),
              LAMBDA w1 : [w1 EXCEPT !.graph = Kill(@, node)]))

\* Mutant of ReplaceLazy: the placeholder gets a single input whatever the
\* number of output kinds.
ReplaceLazyOneInput(w, node, replacement) ==
  LET r == w.graph[replacement]
      has_value_output == IF ValueOutputCount(r) # 0 THEN 1 ELSE 0
      has_effect_output == IF EffectOutputCount(r) # 0 THEN 1 ELSE 0
      has_control_output == IF ControlOutputCount(r) # 0 THEN 1 ELSE 0
      nb_total_output == has_value_output + has_effect_output + has_control_output
  IN  IF nb_total_output = 0 \/ UseEdges(w.graph, node) = <<>>
      THEN [w EXCEPT !.graph = Kill(@, node)]
      ELSE LET g1 == TrimInputCount(w.graph, node, 0)
               new_input == ChasePlaceholder(g1, replacement)
           IN  [w EXCEPT !.graph =
                  [AppendInputs(g1, node, new_input, 1)
                     EXCEPT ![node].op = kReplacementPlaceholder,
                             ![node].ph = <<has_value_output, has_effect_output,
                                            has_control_output>>]]

\* Lazy placeholder rewiring (lines 242-263).
ReplaceLazy(w, node, replacement) ==
  LET r == w.graph[replacement]
      has_value_output == IF ValueOutputCount(r) # 0 THEN 1 ELSE 0
      has_effect_output == IF EffectOutputCount(r) # 0 THEN 1 ELSE 0
      has_control_output == IF ControlOutputCount(r) # 0 THEN 1 ELSE 0
      nb_total_output == has_value_output + has_effect_output + has_control_output
  IN  IF nb_total_output = 0 \/ UseEdges(w.graph, node) = <<>>
      THEN [w EXCEPT !.graph = Kill(@, node)]
      ELSE LET g1 == TrimInputCount(w.graph, node, 0)
               new_input == ChasePlaceholder(g1, replacement)
           IN  [w EXCEPT !.graph =
                  [AppendInputs(g1, node, new_input, nb_total_output)
                     EXCEPT ![node].op = kReplacementPlaceholder,
                             ![node].ph = <<has_value_output, has_effect_output,
                                            has_control_output>>]]

\* Watermark-bounded rewiring (lines 277-291).
RECURSIVE WatermarkLoop(_, _, _, _, _, _)

\* Mutant of WatermarkLoop: every use edge is redirected, whatever its owner.
WatermarkLoopAllEdges(w, node, replacement, max_id, edges, k) ==
  IF k > Len(edges) THEN w
  ELSE Bind(UpdateEdge(w, node, replacement, edges[k]),
            LAMBDA w2 : WatermarkLoop(w2, node, replacement, max_id, edges, k + 1))

WatermarkLoop(w, node, replacement, max_id, edges, k) ==
  IF k > Len(edges) THEN w
  ELSE IF edges[k][1] <= max_id
       THEN Bind(UpdateEdge(w, node, replacement, edges[k]),
                 LAMBDA w2 : WatermarkLoop(w2, node, replacement, max_id, edges, k + 1))
       ELSE WatermarkLoop(w, node, replacement, max_id, edges, k + 1)

\* Mutant of WatermarkFinish: node is killed without looking at its uses.
WatermarkFinishAlwaysKill(w, node, replacement) ==
  Bind([w EXCEPT !.graph = Kill(@, node)],
       LAMBDA w1 : Recurse(w1, replacement))

\* Lines 287-291: unlink node if it is no longer used, then recurse.
WatermarkFinish(w, node, replacement) ==
  Bind(IF UseEdges(w.graph, node) = <<>>
       THEN [w EXCEPT !.graph = Kill(@, node)]
       ELSE w,
       LAMBDA w1 : Recurse(w1, replacement))

ReplaceWatermark(w, node, replacement, max_id) ==
  Bind(UseEdges(w.graph, node),
       LAMBDA edges :
         Bind(WatermarkLoop(w, node, replacement, max_id, edges, 1),
              LAMBDA w1 : WatermarkFinish(w1, node, replacement)))

\* Lines 237-274, entered with the heuristic already updated when the
\* placeholder flag is set (the && of line 237 does not consult it otherwise).
ReplaceLazyOrEager(w, node, replacement) ==
  IF w.placeholder_flag /\ w.revisit_all_nodes
  THEN ReplaceLazy(w, node, replacement)
  ELSE ReplaceEager(w, node, replacement)

\* Lines 236-292. The heuristic is consulted (and updated) only when the
\* placeholder flag is set.
ReplaceDispatch(w, node, replacement, max_id) ==
  IF replacement <= max_id
  THEN Bind(IF w.placeholder_flag THEN UpdateRevisitAll(w) ELSE w,
            LAMBDA w1 : ReplaceLazyOrEager(w1, node, replacement))
  ELSE ReplaceWatermark(w, node, replacement, max_id)

\* GraphReducer::Replace(node, replacement, max_id).
Replace(w, node, replacement, max_id) ==
  Bind([w EXCEPT !.start = IF node = w.start THEN replacement ELSE @,
                 !.end = IF node = w.end THEN replacement ELSE @],
       LAMBDA w1 : ReplaceDispatch(w1, node, replacement, max_id))

\* GraphReducer::ReplaceWithValue. NoNode stands for nullptr. An edge of the
\* snapshot that an earlier iteration already detached is skipped.
\* edge.UpdateTo(to); Revisit(user).
UpdateAndRevisit(w, e, to) ==
  Bind([w EXCEPT !.graph = ReplaceInput(@, e[1], e[2], to)],
       LAMBDA w1 : Revisit(w1, e[1]))

\* Mutant of ReplaceWithValueEdge: an IfException user is wired to the
\* supplied control like any other control user.
ReplaceWithValueEdgeNoDead(w, node, value, effect, control, e) ==
  IF ~(e[2] <= Len(w.graph[e[1]].inputs) /\ w.graph[e[1]].inputs[e[2]] = node)
  THEN w
  ELSE IF IsControlEdge(w.graph, e)
       THEN IF w.graph[e[1]].op = "IfSuccess"
            THEN Replace(w, e[1], control, kMaxNodeId)
            ELSE UpdateAndRevisit(w, e, control)
       ELSE IF IsEffectEdge(w.graph, e)
            THEN UpdateAndRevisit(w, e, effect)
            ELSE UpdateAndRevisit(w, e, value)

\* Lines 311-329: the body of the loop for one use edge of the snapshot.
ReplaceWithValueEdge(w, node, value, effect, control, e) ==
  IF ~(e[2] <= Len(w.graph[e[1]].inputs) /\ w.graph[e[1]].inputs[e[2]] = node)
  THEN w
  ELSE IF IsControlEdge(w.graph, e)
       THEN IF w.graph[e[1]].op = "IfSuccess"
            THEN Replace(w, e[1], control, kMaxNodeId)
            ELSE IF w.graph[e[1]].op = "IfException"
                 THEN UpdateAndRevisit(w, e, w.dead_)
                 ELSE UpdateAndRevisit(w, e, control)
       ELSE IF IsEffectEdge(w.graph, e)
            THEN UpdateAndRevisit(w, e, effect)
            ELSE UpdateAndRevisit(w, e, value)

RECURSIVE ReplaceWithValueLoop(_, _, _, _, _, _, _)
ReplaceWithValueLoop(w, node, value, effect, control, edges, k) ==
  IF k > Len(edges) THEN w
  ELSE Bind(ReplaceWithValueEdge(w, node, value, effect, control, edges[k]),
            LAMBDA w1 : ReplaceWithValueLoop(w1, node, value, effect, control,
                                             edges, k + 1))

ReplaceWithValue(w, node, value, effect0, control0) ==
  LET nd == w.graph[node]
      effect == IF effect0 = NoNode /\ OpSig(nd.op)[2] > 0
                THEN GetEffectInput(nd) ELSE effect0
      control == IF control0 = NoNode /\ OpSig(nd.op)[3] > 0
                 THEN GetControlInput(nd) ELSE control0
  IN  Bind(UseEdges(w.graph, node),
           LAMBDA edges : ReplaceWithValueLoop(w, node, value, effect, control,
                                               edges, 1))

\* ------------------------------------------------------------ the reducers
\* The registered reducers are instances of the Reducer interface. Their
\* rules shrink the graph toward a fixed point: each rule's condition is a
\* function of the node, its inputs and its users, and no rule re-enables
\* itself.
\*   reducer 1: constant folding (Add of two constants, Inc of a constant
\*              become a new constant), strength reduction in place
\*              (Add(x, c) becomes Inc(x)), Inc of a Narrow node is replaced
\*              by that node, call elimination through ReplaceWithValue;
\*   reducer 2: redundancy elimination (Id(x) is replaced by x), in-place
\*              canonicalisation (Sub(x, c) becomes Add(x, c)), in-place
\*              lowering that gives the node a new input (Wide(x) becomes
\*              Narrow(Trunc(x)) with Trunc a new node, once x is no longer
\*              an Id), and a lowering
\*              that wraps a Raw node into a new Conv node that uses it.
\* Any further reducer reports no change.
IsConst(g, n) == g[n].op = "Const"

NoChange(w) == [kind |-> "NoChange", repl |-> NoNode, w |-> w]
Changed(w, node) == [kind |-> "Changed", repl |-> node, w |-> w]
Replaced(w, r) == [kind |-> "Changed", repl |-> r, w |-> w]

\* graph()->NewNode: the node takes the next free id and is linked to its
\* inputs.
NewNode(w, nd) ==
  [w EXCEPT !.graph = LinkInputsFrom([w.graph EXCEPT ![w.count] = nd], w.count, 1),
            !.count = @ + 1]

Reducer1(w, node) ==
  LET g == w.graph
      nd == g[node]
  IN  CASE nd.op = "Add" /\ IsConst(g, nd.inputs[1]) /\ IsConst(g, nd.inputs[2])
             /\ w.count < MaxNodes ->
             Replaced(NewNode(w, MkNode("Const", <<>>)), w.count)
        [] nd.op = "Add" /\ ~IsConst(g, nd.inputs[1]) /\ IsConst(g, nd.inputs[2]) ->
             Changed([w EXCEPT !.graph = [TrimInputCount(w.graph, node, 1)
                                            EXCEPT ![node].op = "Inc"]], node)
        [] nd.op = "Inc" /\ IsConst(g, nd.inputs[1]) /\ w.count < MaxNodes ->
             Replaced(NewNode(w, MkNode("Const", <<>>)), w.count)
        [] nd.op = "Inc" /\ g[nd.inputs[1]].op = "Narrow" /\ nd.inputs[1] # node ->
             Replaced(w, nd.inputs[1])
        [] nd.op = "Call" /\ IsConst(g, nd.inputs[1]) ->
             Replaced(ReplaceWithValue(w, node, nd.inputs[1], NoNode, NoNode),
                      nd.inputs[1])
        [] OTHER -> NoChange(w)

Reducer2(w, node) ==
  LET g == w.graph
      nd == g[node]
  IN  CASE nd.op = "Id" /\ nd.inputs[1] # node -> Replaced(w, nd.inputs[1])
        [] nd.op = "Sub" /\ IsConst(g, nd.inputs[2]) ->
             Changed([w EXCEPT !.graph[node].op = "Add"], node)
        [] nd.op = "Wide" /\ g[nd.inputs[1]].op # "Id" /\ w.count < MaxNodes ->
             Changed(Bind(NewNode(w, MkNode("Trunc", nd.inputs)),
                          LAMBDA w1 :
                            [w1 EXCEPT !.graph =
                               [ReplaceInput(w1.graph, node, 1, w.count)
                                  EXCEPT ![node].op = "Narrow"]]), node)
        [] nd.op = "Raw" /\ (\A u \in Users(g, node) : g[u].op # "Conv")
             /\ w.count < MaxNodes ->
             Replaced(NewNode(w, MkNode("Conv", <<node>>)), w.count)
        [] OTHER -> NoChange(w)

\* (*i)->Reduce(node) for the i-th registered reducer.
ReducerReduce(i, w, node) ==
  IF i = 1 THEN Reducer1(w, node)
  ELSE IF i = 2 THEN Reducer2(w, node)
  ELSE NoChange(w)

\* --------------------------------------------------------- reducer dispatch
\* GraphReducer::Reduce. i is the iterator (1-based), skip = 0 stands for
\* reducers_.end(). trace records the reducers invoked and what each
\* reported: <<reducer, "NoChange" | "InPlace" | "Replaced", replacement>>.
RECURSIVE ReduceLoop(_, _, _, _, _)
RECURSIVE AfterReducer(_, _, _, _, _)

\* Mutant of AfterReducer: an in-place update restarts the iteration without
\* moving skip to the reducer that fired.
AfterReducerNoSkip(reduction, node, i, skip, trace) ==
  IF reduction.repl = NoNode
  THEN ReduceLoop(reduction.w, node, i + 1, skip, Append(trace, <<i, "NoChange", NoNode>>))
  ELSE IF reduction.repl = node
       THEN ReduceLoop(reduction.w, node, 1, skip, Append(trace, <<i, "InPlace", node>>))
       ELSE [kind |-> "Changed", repl |-> reduction.repl, w |-> reduction.w,
             trace |-> Append(trace, <<i, "Replaced", reduction.repl>>)]

\* Lines 102-125: what the loop does with reducer i's reduction.
AfterReducer(reduction, node, i, skip, trace) ==
  IF reduction.repl = NoNode
  THEN ReduceLoop(reduction.w, node, i + 1, skip, Append(trace, <<i, "NoChange", NoNode>>))
  ELSE IF reduction.repl = node
       THEN ReduceLoop(reduction.w, node, 1, i, Append(trace, <<i, "InPlace", node>>))
       ELSE [kind |-> "Changed", repl |-> reduction.repl, w |-> reduction.w,
             trace |-> Append(trace, <<i, "Replaced", reduction.repl>>)]

\* Mutant of ReduceLoop: the loop's exit forgets the in-place updates.
ReduceLoopForgetsInPlace(w, node, i, skip, trace) ==
  IF i > NumReducers
  THEN [kind |-> "NoChange", repl |-> NoNode, w |-> w, trace |-> trace]
  ELSE IF i # skip
       THEN Bind(ReducerReduce(i, w, node),
                 LAMBDA reduction : AfterReducer(reduction, node, i, skip, trace))
       ELSE ReduceLoop(w, node, i + 1, skip, trace)

ReduceLoop(w, node, i, skip, trace) ==
  IF i > NumReducers
  THEN IF skip = 0
       THEN [kind |-> "NoChange", repl |-> NoNode, w |-> w, trace |-> trace]
       ELSE [kind |-> "Changed", repl |-> node, w |-> w, trace |-> trace]
  ELSE IF i # skip
       THEN Bind(ReducerReduce(i, w, node),
                 LAMBDA reduction : AfterReducer(reduction, node, i, skip, trace))
       ELSE ReduceLoop(w, node, i + 1, skip, trace)

Reduce(w, node) == ReduceLoop(w, node, 1, 0, <<>>)

\* --------------------------------------------------------------- ReduceTop
\* Mutant of SuspendAndPush: the saved cursor is one position too far.
SuspendAndPushSkipsOne(w, i, input) ==
  Push([w EXCEPT !.stack[Len(w.stack)].input_index = i + 2], input)

\* Suspend the top frame at input position i (0-based) and push input.
SuspendAndPush(w, i, input) ==
  Push([w EXCEPT !.stack[Len(w.stack)].input_index = i + 1], input)

\* The input scan of lines 150-165 (and 166-181): positions i .. limit-1
\* (0-based). A placeholder input is chased to the end of its chain and the
\* edge rewritten; the first input that Recurse pushes suspends the frame.
RECURSIVE ScanInputs(_, _, _, _)
RECURSIVE ScanResolved(_, _, _, _, _)

\* Lines 161-164 with the (possibly rewritten) input.
ScanResolved(w, node, i, limit, input) ==
  IF input # node /\ RecursePushes(w, input)
  THEN [w |-> SuspendAndPush(w, i, input), pushed |-> TRUE]
  ELSE ScanInputs(w, node, i + 1, limit)

\* Lines 154-160: rewire a placeholder input to the end of its chain.
ScanRewire(w, node, i, limit, input) ==
  Bind([w EXCEPT !.graph = ReplaceInput(@, node, i + 1, input)],
       LAMBDA w1 : ScanResolved(w1, node, i, limit, input))

\* Mutant of ScanInput: a placeholder input is taken as it is, not rewired.
ScanInputKeepsPlaceholder(w, node, i, limit, raw) ==
  ScanResolved(w, node, i, limit, raw)

ScanInput(w, node, i, limit, raw) ==
  IF w.graph[raw].op = kReplacementPlaceholder
  THEN Bind(ChasePlaceholder(w.graph, raw),
            LAMBDA input : ScanRewire(w, node, i, limit, input))
  ELSE ScanResolved(w, node, i, limit, raw)

ScanInputs(w, node, i, limit) ==
  IF i >= limit THEN [w |-> w, pushed |-> FALSE]
  ELSE ScanInput(w, node, i, limit, w.graph[node].inputs[i + 1])

\* The rescan after an in-place update (lines 200-207).
RECURSIVE RescanInputs(_, _, _)
RescanInputs(w, node, i) ==
  IF i >= Len(w.graph[node].inputs) THEN [w |-> w, pushed |-> FALSE]
  ELSE LET input == w.graph[node].inputs[i + 1]
       IN  IF input # node /\ RecursePushes(w, input)
           THEN [w |-> SuspendAndPush(w, i, input), pushed |-> TRUE]
           ELSE RescanInputs(w, node, i + 1)

\* for (Node* const user : node->uses()) if (user != node) Revisit(user);
RECURSIVE RevisitUses(_, _, _, _)
RevisitUses(w, node, edges, k) ==
  IF k > Len(edges) THEN w
  ELSE Bind(IF edges[k][1] # node THEN Revisit(w, edges[k][1]) ELSE w,
            LAMBDA w1 : RevisitUses(w1, node, edges, k + 1))

\* ins, inops and instates are the inputs of the node, their operators and
\* their visit states at the moment Reduce was called on it; cursor and
\* phins are the saved cursor of the top frame and the input positions of
\* its node that held a placeholder when ReduceTop was called.
NoHist == [step |-> "none", node |-> NoNode, reduced |-> FALSE, trace |-> <<>>,
           kind |-> "none", repl |-> NoNode, max_id |-> NoNode, path |-> "none",
           chain |-> 0, ins |-> <<>>, inops |-> <<>>, instates |-> <<>>,
           cursor |-> 0, phins |-> {}]

TopHist(node, kind) == [NoHist EXCEPT !.step = "ReduceTop", !.node = node, !.kind = kind]

ReduceHist(reduction, node, max_id, kind, path) ==
  [step |-> "ReduceTop", node |-> node, reduced |-> TRUE,
   trace |-> reduction.trace, kind |-> kind, repl |-> reduction.repl,
   max_id |-> max_id, path |-> path, chain |-> 0,
   ins |-> <<>>, inops |-> <<>>, instates |-> <<>>,
   cursor |-> 0, phins |-> {}]

\* Which protocol Replace(node, replacement, max_id) takes in world w.
ReplacePath(w, replacement, max_id) ==
  IF replacement <= max_id
  THEN IF w.placeholder_flag /\ RevisitAllAfterUpdate(w) THEN "lazy" ELSE "eager"
  ELSE "watermark"

\* Mutant of CommitInPlacePopped: the users are never revisited.
CommitInPlacePoppedNoRevisit(w, reduction, node, max_id) ==
  IF ~w.revisit_all_nodes
  THEN [w |-> w, h |-> ReduceHist(reduction, node, max_id, "InPlace", "revisit")]
  ELSE [w |-> w, h |-> ReduceHist(reduction, node, max_id, "InPlace", "resweep")]

\* Lines 216-224, after the pop and the heuristic's update.
CommitInPlacePopped(w, reduction, node, max_id) ==
  IF ~w.revisit_all_nodes
  THEN [w |-> Bind(UseEdges(w.graph, node),
                   LAMBDA edges : RevisitUses(w, node, edges, 1)),
        h |-> ReduceHist(reduction, node, max_id, "InPlace", "revisit")]
  ELSE [w |-> w, h |-> ReduceHist(reduction, node, max_id, "InPlace", "resweep")]

\* Lines 198-211 with the result rs of the rescan.
CommitInPlace(rs, reduction, node, max_id) ==
  IF rs.pushed
  THEN [w |-> rs.w, h |-> ReduceHist(reduction, node, max_id, "InPlaceRecurse", "none")]
  ELSE Bind(Pop(rs.w),
            LAMBDA w1 :
              Bind(UpdateRevisitAll(w1),
                   LAMBDA w2 : CommitInPlacePopped(w2, reduction, node, max_id)))

\* Lines 211-215 with the popped world.
CommitReplace(w, reduction, node, max_id) ==
  [w |-> Replace(w, node, reduction.repl, max_id),
   h |-> ReduceHist(reduction, node, max_id, "Replaced",
                    ReplacePath(w, reduction.repl, max_id))]

\* Lines 192-224 with the reduction that Reduce returned.
Commit(reduction, node, max_id) ==
  IF reduction.repl = NoNode
  THEN [w |-> Pop(reduction.w),
        h |-> ReduceHist(reduction, node, max_id, "NoChange", "none")]
  ELSE IF reduction.repl = node
       THEN Bind(RescanInputs(reduction.w, node, 0),
                 LAMBDA rs : CommitInPlace(rs, reduction, node, max_id))
       ELSE Bind(Pop(reduction.w),
                 LAMBDA w1 : CommitReplace(w1, reduction, node, max_id))

\* The outcome r of reducing node, with the inputs that node had in world w,
\* where Reduce was called (line 190), on record.
AtReduce(r, w, node) ==
  [r EXCEPT !.h.ins = w.graph[node].inputs,
            !.h.inops = [k \in 1 .. Len(w.graph[node].inputs) |->
                           w.graph[w.graph[node].inputs[k]].op],
            !.h.instates = [k \in 1 .. Len(w.graph[node].inputs) |->
                              w.state[w.graph[node].inputs[k]]]]

\* Lines 183-190: the top node's inputs are all visited or on the stack.
ReduceAndCommit(w, node) ==
  IF w.graph[node].op = kReplacementPlaceholder
  THEN [w |-> Pop(w), h |-> TopHist(node, "placeholder")]
  ELSE Bind(Reduce(w, node),
            LAMBDA reduction :
              Bind(Commit(reduction, node, w.count - 1),
                   LAMBDA r : AtReduce(r, w, node)))

\* Lines 166-181 done.
AfterSecondScan(s2, node) ==
  IF s2.pushed
  THEN [w |-> s2.w, h |-> TopHist(node, "recurse")]
  ELSE ReduceAndCommit(s2.w, node)

\* Mutant of AfterFirstScan: the positions before the cursor are not scanned.
AfterFirstScanNoWrap(s1, node, first) ==
  IF s1.pushed
  THEN [w |-> s1.w, h |-> TopHist(node, "recurse")]
  ELSE ReduceAndCommit(s1.w, node)

\* Lines 150-165 done.
AfterFirstScan(s1, node, first) ==
  IF s1.pushed
  THEN [w |-> s1.w, h |-> TopHist(node, "recurse")]
  ELSE Bind(ScanInputs(s1.w, node, 0, first),
            LAMBDA s2 : AfterSecondScan(s2, node))

\* Lines 146-149.
ScanFrom(w, node, cnt, input_index) ==
  Bind(ScanInputs(w, node, IF input_index < cnt THEN input_index ELSE 0, cnt),
       LAMBDA s1 : AfterFirstScan(s1, node,
                                  IF input_index < cnt THEN input_index ELSE 0))

ReduceTopOf(w, entry) ==
  IF IsDead(w.graph, entry.node)
  THEN [w |-> Pop(w), h |-> TopHist(entry.node, "dead")]
  ELSE ScanFrom(w, entry.node, Len(w.graph[entry.node].inputs), entry.input_index)

ReduceTop(w) == ReduceTopOf(w, w.stack[Len(w.stack)])

\* ------------------------------------------------------------ initial graphs
\* Node 0 is Start, node 1 the Dead sentinel, node 2 a constant, nodes 3-5
\* are value operations (node 5 may be a call), node 6 is a control user of
\* node 5 and node 7 the Return that is the graph's end.
Unary(ops, xs) == {MkNode(op, <<x>>) : op \in ops, x \in xs}
Binary(ops, xs, ys) == {MkNode(op, <<x, y>>) : op \in ops, x \in xs, y \in ys}

Node3Choices ==
  {MkNode("Add", <<2, 2>>)}
    \cup Unary({"Id", "Inc", "Wide"}, {2, 4})
    \cup Binary({"Sub"}, {2, 4}, {2})

Node4Choices ==
  Unary({"Id", "Inc", "Wide", "Raw"}, {3, 5})
    \cup Binary({"Add", "Sub"}, {3, 5}, {2, 3})

Node5Choices ==
  Unary({"Id", "Inc"}, {3, 4})
    \cup Binary({"Add"}, {3, 4}, {2})
    \cup {MkNode("Call", <<x, 0, 0>>) : x \in {2, 4}}

Node6Choices(n5) ==
  IF n5.op = "Call"
  THEN {MkNode(op, <<5>>) : op \in {"IfSuccess", "IfException", "Merge"}}
  ELSE {MkNode("Merge", <<0>>)}

Node7Choices(n5) ==
  IF n5.op = "Call"
  THEN {MkNode("Return", <<v, e, 6>>) : v \in {4, 5}, e \in {0, 5}}
  ELSE {MkNode("Return", <<v, 0, 6>>) : v \in {4, 5}}

InitGraph(n3, n4, n5, n6, n7) ==
  [n \in Nodes |->
     CASE n = 0 -> MkNode("Start", <<>>)
       [] n = 1 -> MkNode("Dead", <<>>)
       [] n = 2 -> MkNode("Const", <<>>)
       [] n = 3 -> n3
       [] n = 4 -> n4
       [] n = 5 -> n5
       [] n = 6 -> n6
       [] n = 7 -> n7
       [] OTHER -> BlankNode]

\* <<threshold, placeholder flag>> settings of the two flags.
FlagSettings == {<<10, TRUE>>, <<10, FALSE>>, <<100, FALSE>>}

Init ==
  /\ \E n3 \in Node3Choices, n4 \in Node4Choices, n5 \in Node5Choices :
       \E n6 \in Node6Choices(n5), n7 \in Node7Choices(n5) :
         graph = LinkNodesFrom(InitGraph(n3, n4, n5, n6, n7), 0, 8)
  /\ count = 8
  /\ start = 0
  /\ end = 7
  /\ dead_ = 1
  /\ state = [n \in Nodes |-> kUnvisited]
  /\ stack = <<>>
  /\ revisit = <<>>
  /\ nb_traversed_uses = 0
  /\ nb_visited_nodes = 0
  /\ revisit_all_nodes = FALSE
  /\ \E f \in FlagSettings : threshold = f[1] /\ placeholder_flag = f[2]
  /\ pc = "idle"
  /\ fin = [k \in Reducers |-> 0]
  /\ finBudget = MaxFinalizeRevisits
  /\ hist = NoHist
  /\ armed = {}
  /\ owed = {}
  /\ twin = World
  /\ scanned = {}

\* ------------------------------------------------------------ history
\* Length of the placeholder chain that starts at n (0 if n is no placeholder).
RECURSIVE ChainLen(_, _)
ChainLen(g, n) ==
  IF g[n].op = kReplacementPlaceholder THEN 1 + ChainLen(g, g[n].inputs[1]) ELSE 0

\* The longest placeholder chain that the input scan of the ReduceTop step
\* from w to r.w resolved on an input edge of the top node. A step that
\* reached Reduce scanned every position (lines 149-181), whatever lines
\* 192-215 did to the node afterwards; a step that did not left the node's
\* inputs as the scan wrote them.
ResolvedChain(w, r) ==
  LET u == w.stack[Len(w.stack)].node
      S == {ChainLen(w.graph, w.graph[u].inputs[i]) :
              i \in {j \in 1 .. Len(w.graph[u].inputs) :
                       /\ w.graph[u].inputs[j] # NoNode
                       /\ \/ r.h.reduced
                          \/ /\ j <= Len(r.w.graph[u].inputs)
                             /\ w.graph[u].inputs[j] # r.w.graph[u].inputs[j]
                             /\ r.w.graph[u].inputs[j] =
                                  ChasePlaceholder(w.graph, w.graph[u].inputs[j])}}
  IN  IF S = {} THEN 0 ELSE CHOOSE m \in S : \A k \in S : k <= m

\* The nodes that the ReduceTop step from w to r.w put into the revisit queue
\* by replacing one of their inputs, the reduced node.
ArmedAfter(w, r) ==
  IF ~r.h.reduced THEN armed
  ELSE (armed \ {r.h.node}) \cup
       {u \in Users(w.graph, r.h.node) \ {r.h.node} :
          /\ r.h.kind = "Replaced"
          /\ w.state[u] = kVisited
          /\ r.w.state[u] = kRevisit}

\* The users of an armed node that changed in this step are owed another
\* reduction; the node reduced in this step is owed none.
OwedAfter(w, r) ==
  IF ~r.h.reduced THEN owed
  ELSE (owed \ {r.h.node}) \cup
       {c \in Users(w.graph, r.h.node) \ {r.h.node} :
          /\ r.h.node \in armed
          /\ r.h.kind \in {"InPlace", "InPlaceRecurse", "Replaced"}
          /\ w.state[c] # kUnvisited}

\* ------------------------------------------------------------ driver actions
\* The input positions (1-based) of the top node of w that hold a placeholder.
PlaceholderInputs(w) ==
  LET u == w.stack[Len(w.stack)].node
  IN  {k \in 1 .. Len(w.graph[u].inputs) :
         /\ w.graph[u].inputs[k] # NoNode
         /\ w.graph[w.graph[u].inputs[k]].op = kReplacementPlaceholder}

SetStep(w, r) ==
  /\ SetWorld(r.w)
  /\ hist' = [r.h EXCEPT !.chain = ResolvedChain(w, r),
                         !.cursor = w.stack[Len(w.stack)].input_index,
                         !.phins = PlaceholderInputs(w)]

SetFinalized(w) == SetWorld(w) /\ pc' = IF w.revisit = <<>> THEN "done" ELSE "loop"

\* ReduceGraph(): clear the heuristic, then ReduceNode(graph()->end()) up to
\* the first iteration of its loop.
ReduceGraph ==
  /\ pc = "idle"
  /\ \E w \in {[World EXCEPT !.revisit_all_nodes = FALSE,
                             !.nb_traversed_uses = 0,
                             !.nb_visited_nodes = 0]} : SetWorld(Push(w, end))
  /\ pc' = "loop"
  /\ hist' = [NoHist EXCEPT !.step = "ReduceGraph", !.node = end]
  /\ UNCHANGED <<fin, finBudget, armed, owed, twin, scanned>>

\* Loop iteration with a non-empty stack.
StepReduceTop ==
  /\ pc = "loop"
  /\ stack # <<>>
  /\ \E w \in {World} :
       \E r \in {ReduceTop(w)} :
         /\ SetStep(w, r)
         /\ armed' = ArmedAfter(w, r)
         /\ owed' = OwedAfter(w, r)
  /\ UNCHANGED <<pc, fin, finBudget, twin, scanned>>

\* Mutant of StepRevisit: the front of the queue is read but not popped.
StepRevisitNoPop ==
  /\ pc = "loop"
  /\ stack = <<>>
  /\ revisit # <<>>
  /\ \E w \in {World} :
       SetWorld(IF w.state[Head(revisit)] = kRevisit THEN Push(w, Head(revisit)) ELSE w)
  /\ hist' = [NoHist EXCEPT !.step = "Dequeue", !.node = Head(revisit)]
  /\ UNCHANGED <<pc, fin, finBudget, armed, owed, twin, scanned>>

\* Mutant of StepRevisit: the dequeued node is pushed whatever its state.
StepRevisitPushesStale ==
  /\ pc = "loop"
  /\ stack = <<>>
  /\ revisit # <<>>
  /\ \E w1 \in {[World EXCEPT !.revisit = Tail(@)]} :
       /\ SetWorld(Push(w1, Head(revisit)))
       /\ hist' = [NoHist EXCEPT !.step = "Dequeue", !.node = Head(revisit),
                     !.kind = IF w1.state[Head(revisit)] = kRevisit
                              THEN "push" ELSE "stale"]
  /\ UNCHANGED <<pc, fin, finBudget, armed, owed, twin, scanned>>

\* Loop iteration with an empty stack and a non-empty revisit queue.
StepRevisit ==
  /\ pc = "loop"
  /\ stack = <<>>
  /\ revisit # <<>>
  /\ \E w1 \in {[World EXCEPT !.revisit = Tail(@)]} :
       /\ SetWorld(IF w1.state[Head(revisit)] = kRevisit
                   THEN Push(w1, Head(revisit)) ELSE w1)
       /\ hist' = [NoHist EXCEPT !.step = "Dequeue", !.node = Head(revisit),
                     !.kind = IF w1.state[Head(revisit)] = kRevisit
                              THEN "push" ELSE "stale"]
  /\ UNCHANGED <<pc, fin, finBudget, armed, owed, twin, scanned>>

\* Mutant of StepResweep: the counters are not reset.
StepResweepKeepsCounters ==
  /\ pc = "loop"
  /\ stack = <<>>
  /\ revisit = <<>>
  /\ RevisitAllAfterUpdate(World)
  /\ \E w \in {[World EXCEPT !.revisit_all_nodes = FALSE,
                             !.state = [n \in Nodes |-> kUnvisited]]} :
       SetWorld(Push(w, end))
  /\ hist' = [NoHist EXCEPT !.step = "Resweep", !.node = end]
  /\ UNCHANGED <<pc, fin, finBudget, armed, owed, twin, scanned>>

\* Loop iteration that starts a full resweep.
StepResweep ==
  /\ pc = "loop"
  /\ stack = <<>>
  /\ revisit = <<>>
  /\ RevisitAllAfterUpdate(World)
  /\ \E w \in {[World EXCEPT !.revisit_all_nodes = FALSE,
                             !.nb_traversed_uses = 0,
                             !.nb_visited_nodes = 0,
                             !.state = [n \in Nodes |-> kUnvisited]]} :
       SetWorld(Push(w, end))
  /\ hist' = [NoHist EXCEPT !.step = "Resweep", !.node = end]
  /\ UNCHANGED <<pc, fin, finBudget, armed, owed, twin, scanned>>

\* Reducer k's Finalize(): it does nothing or asks for one node, the k-th
\* input of the graph's end, to be revisited.
FinalizeTarget(w, k) ==
  IF k <= Len(w.graph[w.end].inputs) THEN w.graph[w.end].inputs[k] ELSE w.end

RECURSIVE RunFinalizers(_, _, _)
RunFinalizers(w, asks, k) ==
  IF k > NumReducers THEN w
  ELSE Bind(IF k \in asks THEN Revisit(w, FinalizeTarget(w, k)) ELSE w,
            LAMBDA w1 : RunFinalizers(w1, asks, k + 1))

\* Mutant of StepFinalize: the finalizers run as soon as the stack is empty.
StepFinalizeEarly ==
  /\ pc = "loop"
  /\ stack = <<>>
  /\ \E asks \in SUBSET Reducers :
       /\ Cardinality(asks) <= finBudget
       /\ \E w \in {RunFinalizers(w0, asks, 1) : w0 \in {UpdateRevisitAll(World)}} :
            SetFinalized(w)
       /\ finBudget' = finBudget - Cardinality(asks)
       /\ hist' = [NoHist EXCEPT !.step = "Finalize"]
  /\ fin' = [k \in Reducers |-> fin[k] + 1]
  /\ UNCHANGED <<armed, owed, twin, scanned>>

\* Loop iteration that runs all finalizers and leaves the loop when no
\* finalizer enqueued a node.
StepFinalize ==
  /\ pc = "loop"
  /\ stack = <<>>
  /\ revisit = <<>>
  /\ ~RevisitAllAfterUpdate(World)
  /\ \E asks \in SUBSET Reducers :
       /\ Cardinality(asks) <= finBudget
       /\ \E w \in {RunFinalizers(w0, asks, 1) : w0 \in {UpdateRevisitAll(World)}} :
            SetFinalized(w)
       /\ finBudget' = finBudget - Cardinality(asks)
       /\ hist' = [NoHist EXCEPT !.step = "Finalize"]
  /\ fin' = [k \in Reducers |-> fin[k] + 1]
  /\ UNCHANGED <<armed, owed, twin, scanned>>

Next ==
  \/ ReduceGraph
  \/ StepReduceTop
  \/ StepRevisit
  \/ StepResweep
  \/ StepFinalize

Spec == Init /\ [][Next]_vars

\* The driver loop runs to completion: the code is sequential and takes its
\* next step whenever it has one.
FairSpec == Spec /\ WF_vars(Next)

\* ------------------------------------------------------------ graph queries
Allocated == 0 .. (count - 1)

Live == {n \in Allocated : ~IsDead(graph, n)}

\* The nodes that n reads; a null input reads none.
InputSet(g, n) == {g[n].inputs[i] : i \in 1 .. Len(g[n].inputs)} \ {NoNode}

RECURSIVE ReachFrom(_, _)
ReachFrom(g, S) ==
  IF (UNION {InputSet(g, n) : n \in S}) \subseteq S
  THEN S
  ELSE ReachFrom(g, S \cup UNION {InputSet(g, n) : n \in S})

\* The nodes reachable from the graph's end through input edges.
Reachable == ReachFrom(graph, {end})

\* Every registered reducer reports no change on node n in the current graph.
AtFixedPoint(n) == \A k \in Reducers : ReducerReduce(k, World, n).repl = NoNode

StackNodes == {stack[i].node : i \in 1 .. Len(stack)}

\* --------------------------------------- side-by-side run: lazy next to eager
\* A run of ReduceGraph from the constructor's state with the placeholder
\* flag set. The graph is made of the value nodes 3, 4, 5 (the chain; 5 and
\* the user 6 read two values each) over the constant 2, and of node 7, the
\* graph's end; the chain may close a cycle. The two reducers
\* above leave these operators alone, and a further registered reducer
\* replaces a chain node by a node of its choice when Reduce reaches it.
\* The engine performs the replacement through lines 211-215, lazily once
\* the heuristic is raised; its twin performs the same replacement by eager
\* rewiring.
SideGraph(a, b, c, c2, x, x2, y) ==
  [n \in Nodes |->
     CASE n = 0 -> MkNode("Start", <<>>)
       [] n = 1 -> MkNode("Dead", <<>>)
       [] n = 2 -> MkNode("Const", <<>>)
       [] n = 3 -> MkNode("Trunc", <<a>>)
       [] n = 4 -> MkNode("Trunc", <<b>>)
       [] n = 5 -> MkNode("Phi", <<c, c2>>)
       [] n = 6 -> MkNode("Phi", <<x, x2>>)
       [] n = 7 -> MkNode("Return", <<y, 0, 0>>)
       [] OTHER -> BlankNode]

SideChain == {3, 4, 5}

InitSide ==
  /\ \E a \in {2, 4, 5}, b \in {2, 3, 5}, c \in {3, 4}, c2 \in {3, 4} :
       \E x \in SideChain, x2 \in SideChain, y \in {5, 6} :
         graph = LinkNodesFrom(SideGraph(a, b, c, c2, x, x2, y), 0, 8)
  /\ count = 8
  /\ start = 0
  /\ end = 7
  /\ dead_ = 1
  /\ state = [n \in Nodes |-> kUnvisited]
  /\ stack = <<>>
  /\ revisit = <<>>
  /\ nb_traversed_uses = 0
  /\ nb_visited_nodes = 0
  /\ revisit_all_nodes = FALSE
  /\ threshold = 10
  /\ placeholder_flag = TRUE
  /\ pc = "idle"
  /\ fin = [k \in Reducers |-> 0]
  /\ finBudget = MaxFinalizeRevisits
  /\ hist = NoHist
  /\ armed = {}
  /\ owed = {}
  /\ twin = [World EXCEPT !.placeholder_flag = FALSE]
  /\ scanned = {}

\* What the further reducer may return for node in world w: nothing, or a
\* live node that is no placeholder and has an output for the users of node
\* to read.
SideReplacements(w, node) ==
  IF node \in SideChain
  THEN {NoNode} \cup
       {r \in ({w.start, 2} \cup SideChain) \ {node} :
          /\ ~IsDead(w.graph, r)
          /\ w.graph[r].op # kReplacementPlaceholder
          /\ ValueOutputCount(w.graph[r]) > 0}
  ELSE {NoNode}

\* Lines 211-215 when the further reducer returned replacement for the node
\* that the two reducers above left alone: r is the outcome of ReduceTop
\* with the node popped (line 211), Replace follows (line 215).
SideCommitReplace(r, replacement, max_id) ==
  Bind(CommitReplace(r.w,
                     [kind |-> "Changed", repl |-> replacement, w |-> r.w,
                      trace |-> Append(r.h.trace,
                                       <<NumReducers + 1, "Replaced", replacement>>)],
                     r.h.node, max_id),
       LAMBDA r1 : [r1 EXCEPT !.h.ins = r.h.ins, !.h.inops = r.h.inops,
                              !.h.instates = r.h.instates])

\* ReduceTop in world w with the further reducer's answer; r is the outcome
\* with the two reducers above alone. Reduce calls the further reducer after
\* both reported no change (lines 100-104).
SideReduceTopWith(w, r, replacement) ==
  IF replacement # NoNode
  THEN SideCommitReplace(r, replacement, w.count - 1)
  ELSE IF r.h.reduced /\ r.h.kind = "NoChange"
       THEN [r EXCEPT !.h.trace = Append(@, <<NumReducers + 1, "NoChange", NoNode>>)]
       ELSE r

\* Loop iteration with a non-empty stack: one call of ReduceTop in the
\* engine; the twin performs the replacement, if there is one, eagerly.
SideReduceTop ==
  /\ pc = "loop"
  /\ stack # <<>>
  /\ \E w \in {World} :
       \E r0 \in {ReduceTop(w)} :
         \E replacement \in (IF r0.h.reduced /\ r0.h.kind = "NoChange"
                             THEN SideReplacements(r0.w, r0.h.node)
                             ELSE {NoNode}) :
           \E r \in {SideReduceTopWith(w, r0, replacement)} :
             /\ SetStep(w, r)
             /\ twin' = IF replacement = NoNode THEN twin
                        ELSE Replace(twin, r.h.node, replacement, w.count - 1)
             /\ scanned' = IF ~r.h.reduced THEN scanned
                           ELSE IF replacement = NoNode
                                THEN scanned \cup {r.h.node}
                                ELSE {}
  /\ UNCHANGED <<pc, fin, finBudget, armed, owed>>

\* The other steps of the run are those of every run.
NextSide ==
  \/ ReduceGraph
  \/ SideReduceTop
  \/ StepRevisit
  \/ StepResweep
  \/ StepFinalize

SpecSide == InitSide /\ [][NextSide]_vars

\* ------------------------------------------------- ReplaceWithValue on its own
\* A call node 5 on top of the stack with a value user 6, an effect user 7
\* and a control user 8 (whose own user is 9); node 2 is the value and node 4
\* the effect and control that a reducer may supply.
ValueUserChoices ==
  {MkNode("Inc", <<5>>), MkNode("Add", <<5, 2>>), MkNode("Add", <<5, 5>>)}

EffectUserChoices == {MkNode("Return", <<2, 5, 0>>), MkNode("Return", <<6, 5, 8>>)}

ControlUserChoices == {MkNode(op, <<5>>) : op \in {"IfException", "IfSuccess", "Merge"}}

CallGraph(vu, eu, cu) ==
  [n \in Nodes |->
     CASE n = 0 -> MkNode("Start", <<>>)
       [] n = 1 -> MkNode("Dead", <<>>)
       [] n = 2 -> MkNode("Const", <<>>)
       [] n = 3 -> MkNode("Const", <<>>)
       [] n = 4 -> MkNode("Call", <<3, 0, 0>>)
       [] n = 5 -> MkNode("Call", <<2, 0, 0>>)
       [] n = 6 -> vu
       [] n = 7 -> eu
       [] n = 8 -> cu
       [] n = 9 -> MkNode("Merge", <<8>>)
       [] OTHER -> BlankNode]

InitCall ==
  /\ \E vu \in ValueUserChoices, eu \in EffectUserChoices, cu \in ControlUserChoices :
       graph = LinkNodesFrom(CallGraph(vu, eu, cu), 0, 10)
  /\ count = 10
  /\ start = 0
  /\ end = 7
  /\ dead_ = 1
  /\ \E s6 \in {kUnvisited, kVisited}, s7 \in {kUnvisited, kVisited},
        s8 \in {kUnvisited, kVisited} :
       state = [n \in Nodes |->
                  CASE n = 5 -> kOnStack
                    [] n = 6 -> s6
                    [] n = 7 -> s7
                    [] n = 8 -> s8
                    [] n \in {0, 2, 3, 4} -> kVisited
                    [] OTHER -> kUnvisited]
  /\ stack = <<[node |-> 5, input_index |-> 0]>>
  /\ revisit = <<>>
  /\ nb_traversed_uses = 0
  /\ nb_visited_nodes = Cardinality({n \in Nodes : state[n] = kVisited})
  /\ revisit_all_nodes = FALSE
  /\ \E f \in FlagSettings : threshold = f[1] /\ placeholder_flag = f[2]
  /\ pc = "call"
  /\ fin = [k \in Reducers |-> 0]
  /\ finBudget = 0
  /\ hist = NoHist
  /\ armed = {}
  /\ owed = {}
  /\ twin = World
  /\ scanned = {}

\* A reducer calls ReplaceWithValue(node, value, effect, control) on the top
\* node; twin keeps the state before the call, hist.trace the arguments.
CallReplaceWithValue ==
  /\ pc = "call"
  /\ \E effect \in {NoNode, 4}, control \in {NoNode, 4} :
       /\ \E w \in {World} :
            /\ SetWorld(ReplaceWithValue(w, w.stack[Len(w.stack)].node, 2,
                                         effect, control))
            /\ twin' = w
            /\ hist' = [NoHist EXCEPT !.step = "ReplaceWithValue",
                                      !.node = w.stack[Len(w.stack)].node,
                                      !.trace = <<2, effect, control>>]
  /\ pc' = "called"
  /\ UNCHANGED <<fin, finBudget, armed, owed, scanned>>

NextCall == CallReplaceWithValue

SpecCall == InitCall /\ [][NextCall]_vars

\* ---------------------------------------------------------- Replace on its own
\* Replace(node, replacement, max_id) applied to node 3, which ReduceTop has
\* just popped; node 3 has an input or, as a constant, none. Nodes 4 and 5 are users that existed before the step; nodes
\* 6 and 7 are either nodes created during the step (above the watermark 5)
\* or placeholders left by earlier lazy replacements.
Placeholder(v, e, c, target) ==
  [op |-> kReplacementPlaceholder, ph |-> <<v, e, c>>,
   inputs |-> [i \in 1 .. (v + e + c) |-> target], uses |-> <<>>]

ReplTargetChoices == {MkNode("Inc", <<2>>), MkNode("Inc", <<3>>), MkNode("Const", <<>>)}

ReplUser4Choices ==
  {MkNode("Inc", <<3>>), MkNode("Add", <<3, 3>>), MkNode("Add", <<2, 3>>),
   MkNode("Inc", <<2>>)}

ReplUser5Choices == {MkNode("Return", <<3, 0, 0>>), MkNode("Return", <<4, 0, 0>>)}

\* <<node 6, node 7>>.
ReplUpperChoices ==
  {<<MkNode("Conv", <<3>>), MkNode("Inc", <<3>>)>>,
   <<MkNode("Const", <<>>), MkNode("Inc", <<6>>)>>,
   <<Placeholder(1, 0, 0, 7), Placeholder(1, 0, 0, 2)>>,
   <<Placeholder(1, 1, 1, 0), MkNode("Inc", <<6>>)>>}

ReplGraph(n3, n4, n5, up) ==
  [n \in Nodes |->
     CASE n = 0 -> MkNode("Start", <<>>)
       [] n = 1 -> MkNode("Dead", <<>>)
       [] n = 2 -> MkNode("Const", <<>>)
       [] n = 3 -> n3
       [] n = 4 -> n4
       [] n = 5 -> n5
       [] n = 6 -> up[1]
       [] n = 7 -> up[2]
       [] OTHER -> BlankNode]

\* <<start, end>> designations: node 3 may be neither, the start or the end.
ReplDesignations == {<<0, 5>>, <<3, 5>>, <<0, 3>>}

InitRepl ==
  /\ \E n3 \in ReplTargetChoices, n4 \in ReplUser4Choices,
        n5 \in ReplUser5Choices, up \in ReplUpperChoices :
       graph = LinkNodesFrom(ReplGraph(n3, n4, n5, up), 0, 8)
  /\ count = 8
  /\ \E d \in ReplDesignations : start = d[1] /\ end = d[2]
  /\ dead_ = 1
  /\ \E s4 \in {kUnvisited, kRevisit, kVisited}, s5 \in {kOnStack, kVisited},
        s67 \in {kUnvisited, kVisited} :
       /\ state = [n \in Nodes |->
                    CASE n = 4 -> s4
                      [] n = 5 -> s5
                      [] n \in {6, 7} -> s67
                      [] n \in {0, 2, 3} -> kVisited
                      [] OTHER -> kUnvisited]
       /\ stack = IF s5 = kOnStack THEN <<[node |-> 5, input_index |-> 1]>> ELSE <<>>
       /\ revisit = IF s4 = kRevisit THEN <<4>> ELSE <<>>
       /\ nb_traversed_uses = IF s4 = kRevisit THEN 1 ELSE 0
  /\ nb_visited_nodes =
       Cardinality({n \in Nodes : state[n] = kVisited}) + nb_traversed_uses
  /\ revisit_all_nodes \in BOOLEAN
  /\ threshold = 100
  /\ placeholder_flag \in BOOLEAN
  /\ pc = "repl"
  /\ fin = [k \in Reducers |-> 0]
  /\ finBudget = 0
  /\ hist = NoHist
  /\ armed = {}
  /\ owed = {}
  /\ twin = World
  /\ scanned = {}

\* The replacement a reducer returned: a live node with a value output for
\* the users of node 3; one that lies above the watermark was created during
\* the step and is no placeholder.
ReplReplacements(max_id) ==
  {r \in {0, 2, 6, 7} :
     /\ ~IsDead(graph, r)
     /\ ValueOutputCount(graph[r]) > 0
     /\ r > max_id => graph[r].op # kReplacementPlaceholder}

\* Replace(3, replacement, max_id); twin keeps the state before the call.
ReplReplace ==
  /\ pc = "repl"
  /\ \E max_id \in {5, count - 1, kMaxNodeId} :
       \E replacement \in ReplReplacements(max_id) :
         \E w \in {World} :
           /\ SetWorld(Replace(w, 3, replacement, max_id))
           /\ twin' = w
           /\ hist' = [NoHist EXCEPT
                         !.step = "Replace", !.node = 3, !.repl = replacement,
                         !.max_id = max_id,
                         !.path = ReplacePath(w, replacement, max_id)]
  /\ pc' = "replaced"
  /\ UNCHANGED <<fin, finBudget, armed, owed, scanned>>

NextRepl == ReplReplace

SpecRepl == InitRepl /\ [][NextRepl]_vars

\* The use edges <<owner, position>> that node n had before the call.
EdgesBefore(n) ==
  {e \in Nodes \X (1 .. 3) :
     /\ e[2] <= Len(twin.graph[e[1]].inputs)
     /\ twin.graph[e[1]].inputs[e[2]] = n}

\* Input position e[2] of owner e[1] now targets node t.
TargetsNow(e, t) ==
  /\ e[2] <= Len(graph[e[1]].inputs)
  /\ graph[e[1]].inputs[e[2]] = t

\* --------------------------------------------------- a suspended frame resumed
\* The run of the side-by-side section, with twin keeping the state in which
\* the last call of ReduceTop began: frames suspended in mid-scan are resumed
\* after the lazy replacements made above them turned inputs on either side
\* of the saved cursor into placeholders.
InitScan ==
  /\ \E a \in {2, 4, 5}, b \in {2, 3, 5}, c \in {3, 4}, c2 \in {3, 4} :
       \E x \in SideChain, x2 \in SideChain, y \in {5, 6} :
         graph = LinkNodesFrom(SideGraph(a, b, c, c2, x, x2, y), 0, 8)
  /\ count = 8
  /\ start = 0
  /\ end = 7
  /\ dead_ = 1
  /\ state = [n \in Nodes |-> kUnvisited]
  /\ stack = <<>>
  /\ revisit = <<>>
  /\ nb_traversed_uses = 0
  /\ nb_visited_nodes = 0
  /\ revisit_all_nodes = FALSE
  /\ threshold = 10
  /\ placeholder_flag = TRUE
  /\ pc = "idle"
  /\ fin = [k \in Reducers |-> 0]
  /\ finBudget = MaxFinalizeRevisits
  /\ hist = NoHist
  /\ armed = {}
  /\ owed = {}
  /\ twin = World
  /\ scanned = {}

\* Loop iteration with a non-empty stack: one call of ReduceTop, with the
\* further reducer's answer; twin keeps the state before the call.
ScanReduceTop ==
  /\ pc = "loop"
  /\ stack # <<>>
  /\ \E w \in {World} :
       \E r0 \in {ReduceTop(w)} :
         \E replacement \in (IF r0.h.reduced /\ r0.h.kind = "NoChange"
                             THEN SideReplacements(r0.w, r0.h.node)
                             ELSE {NoNode}) :
           \E r \in {SideReduceTopWith(w, r0, replacement)} :
             /\ SetStep(w, r)
             /\ twin' = w
  /\ UNCHANGED <<pc, fin, finBudget, armed, owed, scanned>>

NextScan ==
  \/ ReduceGraph
  \/ ScanReduceTop
  \/ StepRevisit
  \/ StepResweep
  \/ StepFinalize

SpecScan == InitScan /\ [][NextScan]_vars

\* ==================================================================== claims

\* C1. Termination: with the monotone reducers of this model and finalizers
\* that enqueue a bounded number of nodes, every run of ReduceGraph leaves
\* the driver loop of ReduceNode.
C1_Termination == <>(pc = "done")

\* A finished run that visited nodes, killed one, and ran the finalizers.
C1_Witness ==
  /\ pc = "done" /\ stack = <<>> /\ revisit = <<>>
  /\ nb_visited_nodes > 1
  /\ \A k \in Reducers : fin[k] >= 1
  /\ \E n \in Allocated : IsDead(graph, n)

\* C2. Fixed point: after ReduceGraph returns, every reducer reports no
\* change on every live node. Stated here for the live nodes the run can
\* reach from the graph's end, which the claim includes.
C2_FixedPointAtReturn ==
  pc = "done" => \A n \in Live \cap Reachable : AtFixedPoint(n)

\* C3. No dangling edges: after the run, every input of every live node is
\* a live node.
C3_NoDanglingEdges ==
  pc = "done" => \A n \in Live : \A m \in InputSet(graph, n) : ~IsDead(graph, m)

\* A finished run in which a node was killed and another was turned into a
\* placeholder by a lazy replacement.
C3_Witness ==
  /\ pc = "done"
  /\ \E n \in Allocated : IsDead(graph, n)
  /\ \E n \in Allocated : graph[n].op = kReplacementPlaceholder

\* C4 as claimed: in one run Finalize is called on every reducer exactly
\* once.
C4_FinalizeExactlyOnce == pc = "done" => \A k \in Reducers : fin[k] = 1

\* C4 amended: Finalize is called in rounds. A round starts only with the
\* stack empty, the revisit queue empty and no resweep pending, and calls
\* every reducer's Finalize once; the run ends exactly when a round leaves
\* the revisit queue empty, and never without a round.
C4_FinalizeRounds ==
  [][/\ (fin' # fin) =>
          /\ stack = <<>>
          /\ revisit = <<>>
          /\ ~RevisitAllAfterUpdate(World)
          /\ \A k \in Reducers : fin'[k] = fin[k] + 1
          /\ (pc' = "done") <=> (revisit' = <<>>)
     /\ (pc # "done" /\ pc' = "done") => (fin' # fin)]_vars

\* A finished run whose first round of finalizers enqueued a node, so that
\* every reducer was finalized twice.
C4_Witness == pc = "done" /\ \A k \in Reducers : fin[k] = 2

\* C5. Placeholder transparency: in the side-by-side run, every input edge of
\* a live node of the engine that is no placeholder leads, through the
\* placeholders it may still target, to the node that the edge targets in
\* the twin, where every replacement was done by eager rewiring; every input
\* edge of a node whose input scan completed since the last replacement
\* targets that node itself. A replacement made while the heuristic is
\* raised takes the lazy protocol.
C5_PlaceholderTransparency ==
  /\ hist.kind = "Replaced" => (hist.path = "lazy" <=> revisit_all_nodes)
  /\ \A u \in Allocated :
       (~IsDead(graph, u) /\ graph[u].op # kReplacementPlaceholder) =>
         /\ ~IsDead(twin.graph, u)
         /\ Len(graph[u].inputs) = Len(twin.graph[u].inputs)
         /\ \A i \in 1 .. Len(graph[u].inputs) :
              ChasePlaceholder(graph, graph[u].inputs[i]) = twin.graph[u].inputs[i]
  /\ \A u \in scanned :
       /\ ~IsDead(twin.graph, u)
       /\ graph[u].inputs = twin.graph[u].inputs

\* A scan step has just resolved an edge of a user through a chain of at
\* least two placeholders, left by back-to-back lazy replacements; the edge
\* now targets the end of the chain, as in the twin.
C5_Witness ==
  /\ hist.step = "ReduceTop"
  /\ hist.chain >= 2
  /\ Cardinality({n \in SideChain : graph[n].op = kReplacementPlaceholder}) >= 2
  /\ Cardinality({n \in SideChain : IsDead(twin.graph, n)}) >= 2
  /\ \E i \in 1 .. Len(graph[hist.node].inputs) :
       /\ graph[hist.node].inputs[i] = twin.graph[hist.node].inputs[i]
       /\ graph[graph[hist.node].inputs[i]].op # kReplacementPlaceholder
       /\ \E p \in SideChain :
            /\ ChainLen(graph, p) >= 2
            /\ ChasePlaceholder(graph, p) = graph[hist.node].inputs[i]

\* C6. Revisit correctness on a chain A used by B used by C: B was put into
\* the revisit queue by the replacement of A; when B's reduction then changed
\* B (in place or by replacement), its user C, already visited, is reduced
\* again before the run completes. owed holds the users C still waiting.
C6_RevisitChain ==
  pc = "done" =>
    \A c \in owed \cap Live \cap Reachable : graph[c].op = kReplacementPlaceholder

\* C7. Edge-kind separation in ReplaceWithValue(node, value, effect,
\* control) when the control user is an IfException: every value edge that
\* pointed at node points at the supplied value, every effect edge at the
\* supplied effect (node's own effect input if none was supplied), and the
\* IfException's control edge at the dead sentinel, not at the control.
C7_EdgeKindSeparation ==
  (pc = "called" /\ \E u \in Users(twin.graph, hist.node) : twin.graph[u].op = "IfException") =>
    \A u \in Users(twin.graph, hist.node) :
      \A i \in 1 .. Len(twin.graph[u].inputs) :
        twin.graph[u].inputs[i] = hist.node =>
          CASE EdgeKind(twin.graph[u], i) = "value" ->
                 graph[u].inputs[i] = hist.trace[1]
            [] EdgeKind(twin.graph[u], i) = "effect" ->
                 graph[u].inputs[i] =
                   IF hist.trace[2] # NoNode THEN hist.trace[2]
                   ELSE GetEffectInput(twin.graph[hist.node])
            [] OTHER ->
                 twin.graph[u].op = "IfException" =>
                   /\ graph[u].inputs[i] = dead_
                   /\ graph[u].inputs[i] # hist.trace[3]
                   /\ graph[u].inputs[i] # GetControlInput(twin.graph[hist.node])

\* The call was made with an effect and a control supplied on a node with a
\* value user, an effect user and an IfException user, all visited before.
C7_Witness ==
  /\ pc = "called"
  /\ hist.trace[2] # NoNode /\ hist.trace[3] # NoNode
  /\ \E u \in Users(twin.graph, hist.node) :
       twin.graph[u].op = "IfException" /\ state[u] = kRevisit
  /\ \E u \in Users(twin.graph, hist.node) :
       \E i \in 1 .. Len(twin.graph[u].inputs) :
         /\ twin.graph[u].inputs[i] = hist.node
         /\ EdgeKind(twin.graph[u], i) = "value"
         /\ state[u] = kRevisit
  /\ \E u \in Users(twin.graph, hist.node) :
       \E i \in 1 .. Len(twin.graph[u].inputs) :
         /\ twin.graph[u].inputs[i] = hist.node
         /\ EdgeKind(twin.graph[u], i) = "effect"

\* C8. Result of Reduce(node), read off the invocations recorded in the
\* last ReduceTop step: a Replaced report is the last invocation and its
\* replacement is returned; if all reducers were invoked in order and all
\* reported no change, the result is NoChange; if some reducer fired in
\* place and none replaced, the result is the node itself.
C8_ReduceResult ==
  hist.reduced =>
    LET tr == hist.trace
        R == {i \in 1 .. Len(tr) : tr[i][2] = "Replaced"}
        P == {i \in 1 .. Len(tr) : tr[i][2] = "InPlace"}
    IN  /\ R # {} => /\ R = {Len(tr)}
                     /\ hist.repl = tr[Len(tr)][3]
                     /\ hist.repl \notin {hist.node, NoNode}
                     /\ hist.kind = "Replaced"
        /\ (R = {} /\ P = {}) =>
             /\ hist.repl = NoNode
             /\ hist.kind = "NoChange"
             /\ tr = [i \in Reducers |-> <<i, "NoChange", NoNode>>]
        /\ (R = {} /\ P # {}) =>
             /\ hist.repl = hist.node
             /\ hist.kind \in {"InPlace", "InPlaceRecurse"}

\* A Reduce call in which a reducer fired in place and a later one replaced
\* the node.
C8_Witness ==
  /\ hist.reduced
  /\ hist.kind = "Replaced"
  /\ \E i \in 1 .. Len(hist.trace) : hist.trace[i][2] = "InPlace"

\* C9 as claimed: a reducer that reported an in-place update is not invoked
\* again in the same Reduce call.
C9_PermanentSkip ==
  hist.reduced =>
    \A j \in 1 .. Len(hist.trace) : \A i \in 1 .. (j - 1) :
      hist.trace[i][2] = "InPlace" => hist.trace[j][1] # hist.trace[i][1]

\* C9 amended: a reducer that reported an in-place update is skipped while
\* it is the most recent reducer to have done so; it is invoked again only
\* after another reducer reported an in-place update in between.
C9_SkipMostRecent ==
  hist.reduced =>
    \A j \in 1 .. Len(hist.trace) : \A i \in 1 .. (j - 1) :
      (hist.trace[i][2] = "InPlace" /\ hist.trace[j][1] = hist.trace[i][1]) =>
        \E m \in (i + 1) .. (j - 1) :
          hist.trace[m][2] = "InPlace" /\ hist.trace[m][1] # hist.trace[i][1]

\* A Reduce call in which two reducers fired in place in turn and the first
\* of them was invoked again.
C9_Witness ==
  /\ hist.reduced
  /\ \E j \in 1 .. Len(hist.trace) : \E i \in 1 .. (j - 1) :
       hist.trace[i][2] = "InPlace" /\ hist.trace[j][1] = hist.trace[i][1]

\* C10. A node's visit state is OnStack iff it occupies exactly one frame of
\* the traversal stack, and no node occupies two frames.
C10_OnStackIffOneFrame ==
  \A n \in Nodes :
    /\ Cardinality({i \in 1 .. Len(stack) : stack[i].node = n}) <= 1
    /\ (state[n] = kOnStack) <=>
         (Cardinality({i \in 1 .. Len(stack) : stack[i].node = n}) = 1)

\* Several frames are on the stack while a node waits in the revisit queue
\* and another was popped.
C10_Witness ==
  /\ Len(stack) >= 3
  /\ revisit # <<>>
  /\ \E n \in Nodes : state[n] = kRevisit
  /\ \E n \in Nodes : state[n] = kVisited

\* C11. Placeholders do not persist past a run: when ReduceGraph returns, no
\* live node reachable from the graph's end has an input edge that targets a
\* placeholder node.
C11_NoPlaceholderInputAtReturn ==
  pc = "done" =>
    \A n \in Live \cap Reachable :
      \A m \in InputSet(graph, n) : graph[m].op # kReplacementPlaceholder

\* A finished run in which a lazy replacement turned a node into a
\* placeholder whose target a reachable node now reads directly.
C11_Witness ==
  /\ pc = "done"
  /\ \E p \in Live :
       /\ graph[p].op = kReplacementPlaceholder
       /\ ChasePlaceholder(graph, p) \in Reachable
       /\ Users(graph, ChasePlaceholder(graph, p)) \cap Reachable # {}

\* C12. The saved input cursor of every frame on the stack is at most the
\* current input count of the frame's node: an in-place reduction that
\* shrinks the inputs of the top node either pops it or saves a cursor within
\* the new inputs, a kill nulls the inputs of a stacked node and keeps their
\* count, and the stacked node that a replacement turns into a placeholder
\* has a cursor of at most one and receives at least one input.
C12_CursorWithinInputs ==
  \A i \in 1 .. Len(stack) :
    stack[i].input_index <= Len(graph[stack[i].node].inputs)

\* A node was killed while on the stack, suspended at the end of its (now
\* null) inputs, above a live frame suspended at its last input.
C12_Witness ==
  /\ \E i \in 1 .. Len(stack) :
       /\ IsDead(graph, stack[i].node)
       /\ stack[i].input_index > 0
       /\ stack[i].input_index = Len(graph[stack[i].node].inputs)
  /\ \E i \in 1 .. Len(stack) :
       /\ ~IsDead(graph, stack[i].node)
       /\ stack[i].input_index > 0
       /\ stack[i].input_index = Len(graph[stack[i].node].inputs)

\* C13. Watermark-bounded replacement Replace(node, replacement, max_id)
\* with replacement above max_id: every use edge of node whose owner is at
\* most max_id now targets the replacement (the self edge of a node that was
\* then killed is gone with its inputs), every use edge whose owner is above
\* max_id still targets node; node is dead only when no such edge remained,
\* and then it is dead if it has inputs at all, all of them null, while a
\* node that keeps a user keeps its inputs (but for a self edge, redirected
\* like any edge of an old owner).
C13_WatermarkReplace ==
  (pc = "replaced" /\ hist.path = "watermark") =>
    /\ hist.repl > hist.max_id
    /\ \A e \in EdgesBefore(hist.node) :
         IF e[1] <= hist.max_id
         THEN \/ TargetsNow(e, hist.repl)
              \/ e[1] = hist.node /\ IsDead(graph, hist.node)
         ELSE TargetsNow(e, hist.node)
    /\ IsDead(graph, hist.node) =>
         /\ ~(\E e \in EdgesBefore(hist.node) : e[1] > hist.max_id)
         /\ Users(graph, hist.node) = {}
    /\ IF \E e \in EdgesBefore(hist.node) : e[1] > hist.max_id
       THEN graph[hist.node].inputs =
              [i \in 1 .. Len(twin.graph[hist.node].inputs) |->
                 IF twin.graph[hist.node].inputs[i] = hist.node
                 THEN hist.repl ELSE twin.graph[hist.node].inputs[i]]
       ELSE /\ IsDead(graph, hist.node) <=> Len(twin.graph[hist.node].inputs) > 0
            /\ graph[hist.node].inputs =
                 [i \in 1 .. Len(twin.graph[hist.node].inputs) |-> NoNode]

\* A watermark replacement that redirected an old user, left the edge of a
\* node created during the step in place, and so kept node alive.
C13_Witness ==
  /\ pc = "replaced" /\ hist.path = "watermark"
  /\ ~IsDead(graph, hist.node)
  /\ \E e \in EdgesBefore(hist.node) :
       e[1] <= hist.max_id /\ e[1] # hist.node /\ TargetsNow(e, hist.repl)
  /\ \E e \in EdgesBefore(hist.node) :
       e[1] > hist.max_id /\ TargetsNow(e, hist.node)

\* The edges, node and designations after an eager rewiring: every edge that
\* pointed at node points at the replacement (the self edges of node were
\* nulled with its inputs), node has no users and all its inputs are null,
\* start and end follow.
EagerRewired ==
  /\ \A e \in EdgesBefore(hist.node) :
       e[1] # hist.node => TargetsNow(e, hist.repl)
  /\ graph[hist.node].inputs =
       [i \in 1 .. Len(twin.graph[hist.node].inputs) |-> NoNode]
  /\ UseEdges(graph, hist.node) = <<>>
  /\ Users(graph, hist.node) = {}
  /\ start = IF twin.start = hist.node THEN hist.repl ELSE twin.start
  /\ end = IF twin.end = hist.node THEN hist.repl ELSE twin.end

\* The owners, other than node, of the edges that pointed at node.
OwnersBefore == {e[1] : e \in EdgesBefore(hist.node)} \ {hist.node}

\* The owners of a sequence of use edges in the order of their first edge.
RECURSIVE OwnersInOrder(_, _)
OwnersInOrder(edges, seen) ==
  IF edges = <<>> THEN <<>>
  ELSE IF Head(edges)[1] \in seen
       THEN OwnersInOrder(Tail(edges), seen)
       ELSE <<Head(edges)[1]>>
              \o OwnersInOrder(Tail(edges), seen \cup {Head(edges)[1]})

\* The Visited owners other than node on node's use list before the call, in
\* the order of that list.
VisitedOwnersBefore ==
  OwnersInOrder(SelectSeq(UseEdges(twin.graph, hist.node),
                          LAMBDA e : e[1] # hist.node /\ twin.state[e[1]] = kVisited),
                {})

QueueHas(q, u) == \E k \in 1 .. Len(q) : q[k] = u

InQueue(u) == QueueHas(revisit, u)

\* C14 as claimed: after an eager rewiring every edge that pointed at node
\* points at the replacement, every owner of such an edge other than node is
\* in the revisit queue, node is dead, and start and end follow.
C14_EagerAllOwnersEnqueued ==
  (pc = "replaced" /\ hist.path = "eager") =>
    /\ EagerRewired
    /\ IsDead(graph, hist.node)
    /\ \A u \in OwnersBefore : state[u] = kRevisit /\ InQueue(u)

\* C14 amended: as above, but only the owners that were Visited are enqueued
\* (once each, in state Revisit, in the order of node's use list); an owner
\* that was Unvisited or OnStack keeps its state and is not enqueued, an
\* owner that was already waiting for revisit keeps its queue entry, and
\* nothing else enters the queue. Node is dead if it has inputs; a node
\* without inputs is left as it was and IsDead does not report it.
C14_EagerVisitedOwnersEnqueued ==
  (pc = "replaced" /\ hist.path = "eager") =>
    /\ EagerRewired
    /\ IsDead(graph, hist.node) <=> Len(twin.graph[hist.node].inputs) > 0
    /\ \A u \in OwnersBefore :
         IF twin.state[u] = kVisited
         THEN /\ state[u] = kRevisit
              /\ Cardinality({k \in 1 .. Len(revisit) : revisit[k] = u}) = 1
         ELSE /\ state[u] = twin.state[u]
              /\ InQueue(u) <=> twin.state[u] = kRevisit
    /\ \A u \in Nodes \ OwnersBefore : state[u] = twin.state[u]
    /\ Len(revisit) = Len(twin.revisit)
         + Cardinality({u \in OwnersBefore : twin.state[u] = kVisited})
    /\ SubSeq(revisit, 1, Len(twin.revisit)) = twin.revisit
    /\ revisit = twin.revisit \o VisitedOwnersBefore

\* An eager rewiring of the graph's end, with a self edge, a Visited owner
\* that was enqueued and an owner on the stack that was not.
C14_Witness ==
  /\ pc = "replaced" /\ hist.path = "eager"
  /\ twin.end = hist.node /\ end = hist.repl
  /\ <<hist.node, 1>> \in EdgesBefore(hist.node)
  /\ \E u \in OwnersBefore : twin.state[u] = kVisited /\ InQueue(u)
  /\ \E u \in OwnersBefore : twin.state[u] = kOnStack /\ ~InQueue(u)

\* The number of output kinds (value, effect, control) of node r before the
\* call.
OutputKindsBefore(r) ==
  (IF ValueOutputCount(twin.graph[r]) # 0 THEN 1 ELSE 0)
    + (IF EffectOutputCount(twin.graph[r]) # 0 THEN 1 ELSE 0)
    + (IF ControlOutputCount(twin.graph[r]) # 0 THEN 1 ELSE 0)

\* C15. Lazy placeholder replacement of a node that has users by a
\* replacement with an output: every other node, so every user's edge to
\* node, is unchanged, the revisit queue, the visit states and the counters
\* are unchanged, and node is a placeholder whose inputs are one copy per
\* output kind of the replacement of the non-placeholder node at the end of
\* the replacement's chain. (Start and end follow as in every Replace.)
C15_LazyFrame ==
  (/\ pc = "replaced" /\ hist.path = "lazy"
   /\ EdgesBefore(hist.node) # {}
   /\ OutputKindsBefore(hist.repl) > 0) =>
    /\ \A u \in Nodes \ {hist.node} :
         /\ graph[u].op = twin.graph[u].op
         /\ graph[u].ph = twin.graph[u].ph
         /\ graph[u].inputs = twin.graph[u].inputs
    /\ UseEdges(graph, hist.node) =
         SelectSeq(UseEdges(twin.graph, hist.node), LAMBDA e : e[1] # hist.node)
    /\ \A e \in EdgesBefore(hist.node) :
         e[1] # hist.node => TargetsNow(e, hist.node)
    /\ revisit = twin.revisit
    /\ state = twin.state
    /\ stack = twin.stack
    /\ nb_traversed_uses = twin.nb_traversed_uses
    /\ nb_visited_nodes = twin.nb_visited_nodes
    /\ count = twin.count
    /\ ~IsDead(graph, hist.node)
    /\ graph[hist.node].op = kReplacementPlaceholder
    /\ graph[hist.node].inputs =
         [i \in 1 .. OutputKindsBefore(hist.repl) |->
            ChasePlaceholder(twin.graph, hist.repl)]
    /\ graph[ChasePlaceholder(twin.graph, hist.repl)].op # kReplacementPlaceholder
    /\ start = IF twin.start = hist.node THEN hist.repl ELSE twin.start
    /\ end = IF twin.end = hist.node THEN hist.repl ELSE twin.end

\* A lazy replacement by a placeholder at the head of a chain of two, of a
\* node with a Visited user; and the placeholder has one input per kind.
C15_Witness ==
  /\ pc = "replaced" /\ hist.path = "lazy"
  /\ ChainLen(twin.graph, hist.repl) = 2
  /\ graph[hist.node].inputs = <<2>>
  /\ \E e \in EdgesBefore(hist.node) :
       e[1] # hist.node /\ state[e[1]] = kVisited /\ TargetsNow(e, hist.node)

\* C16 as claimed: within a run neither counter ever decreases.
C16_CountersMonotonic ==
  [][pc = "loop" =>
       /\ nb_visited_nodes' >= nb_visited_nodes
       /\ nb_traversed_uses' >= nb_traversed_uses]_vars

\* C16 amended: within a run neither counter decreases except at a full
\* resweep, which sets both back to zero.
C16_CountersMonotonicBetweenResweeps ==
  [][pc = "loop" =>
       IF hist'.step = "Resweep"
       THEN nb_visited_nodes' = 0 /\ nb_traversed_uses' = 0
       ELSE /\ nb_visited_nodes' >= nb_visited_nodes
            /\ nb_traversed_uses' >= nb_traversed_uses]_vars

\* A resweep has just set both counters back after a pass that killed a node.
C16_Witness ==
  /\ hist.step = "Resweep"
  /\ nb_visited_nodes = 0 /\ nb_traversed_uses = 0
  /\ \E n \in Allocated : IsDead(graph, n)

\* C17. A ReduceTop call works on the top of the stack. If it invoked the
\* reducers, the node was neither dead nor a placeholder and every input it
\* had when Reduce was called, other than the node itself, was OnStack or
\* Visited; a dead or placeholder node sees no reducer, and a dead one is
\* popped at once, a placeholder as soon as its inputs need no recursion.
C17_ReduceOnlyWhenInputsDone ==
  [][(hist'.step = "ReduceTop" /\ stack # <<>>) =>
       LET top == stack[Len(stack)].node
           popped == /\ stack' = SubSeq(stack, 1, Len(stack) - 1)
                     /\ state'[top] = kVisited
       IN  /\ hist'.node = top
           /\ hist'.reduced =>
                /\ ~IsDead(graph, top)
                /\ graph[top].op # kReplacementPlaceholder
                /\ \A k \in 1 .. Len(hist'.ins) :
                     \/ hist'.ins[k] = top
                     \/ hist'.instates[k] \in {kOnStack, kVisited}
           /\ (IsDead(graph, top) \/ graph[top].op = kReplacementPlaceholder) =>
                /\ ~hist'.reduced
                /\ hist'.trace = <<>>
                /\ IsDead(graph, top) => popped
                /\ hist'.kind # "recurse" => popped]_vars

\* Reducers ran on a node one of whose inputs is on the stack (a cycle), in
\* a run in which a node was killed earlier.
C17_Witness ==
  /\ hist.step = "ReduceTop" /\ hist.reduced
  /\ \E k \in 1 .. Len(hist.ins) :
       hist.ins[k] # hist.node /\ hist.instates[k] = kOnStack
  /\ \E n \in Allocated : IsDead(graph, n)

\* The node of an in-place change without further recursion was popped.
InPlacePopped ==
  /\ stack' = SubSeq(stack, 1, Len(stack) - 1)
  /\ state[hist'.node] = kOnStack
  /\ state'[hist'.node] = kVisited

\* The heuristic has fired: nothing is enqueued, no other state changes.
InPlaceResweepPending ==
  /\ revisit_all_nodes'
  /\ revisit' = revisit
  /\ \A u \in Nodes \ {hist'.node} : state'[u] = state[u]

\* C18 as claimed: after an in-place change without further recursion the
\* node is popped; if the heuristic has fired no user is enqueued and a
\* resweep follows before the run ends; otherwise every user of the node
\* other than the node itself is in the revisit queue.
C18_InPlaceAllUsersEnqueued ==
  /\ [][(hist'.step = "ReduceTop" /\ hist'.kind = "InPlace") =>
          /\ InPlacePopped
          /\ IF hist'.path = "resweep"
             THEN InPlaceResweepPending
             ELSE \A u \in Users(graph', hist'.node) \ {hist'.node} :
                    state'[u] = kRevisit /\ QueueHas(revisit', u)]_vars
  /\ (hist.kind = "InPlace" /\ hist.path = "resweep") ~> (hist.step = "Resweep")

\* C18 amended: as above, but without the heuristic having fired it is the
\* users in state Visited that are enqueued; a user that is on the stack,
\* unvisited or already waiting for revisit keeps its state.
C18_InPlaceVisitedUsersEnqueued ==
  /\ [][(hist'.step = "ReduceTop" /\ hist'.kind = "InPlace") =>
          /\ InPlacePopped
          /\ IF hist'.path = "resweep"
             THEN InPlaceResweepPending
             ELSE /\ ~revisit_all_nodes'
                  /\ \A u \in Users(graph', hist'.node) \ {hist'.node} :
                       IF state[u] = kVisited
                       THEN state'[u] = kRevisit /\ QueueHas(revisit', u)
                       ELSE state'[u] = state[u]
                  /\ \A u \in Nodes \ (Users(graph', hist'.node) \cup {hist'.node}) :
                       state'[u] = state[u]]_vars
  /\ (hist.kind = "InPlace" /\ hist.path = "resweep") ~> (hist.step = "Resweep")

\* An in-place change has just enqueued a Visited user of the node and left
\* a user that is on the stack alone.
C18_Witness ==
  /\ hist.step = "ReduceTop" /\ hist.kind = "InPlace" /\ hist.path = "revisit"
  /\ \E u \in Users(graph, hist.node) \ {hist.node} :
       state[u] = kRevisit /\ revisit[Len(revisit)] = u
  /\ \E u \in Users(graph, hist.node) \ {hist.node} : state[u] = kOnStack

\* C19. No revisit is lost: every node in state Revisit has an entry in the
\* revisit queue, and the driver's dequeue step pushes the front node exactly
\* when its state is still Revisit; a stale entry is dropped and nothing
\* else changes.
C19_NoRevisitLost ==
  /\ [](\A n \in Nodes : state[n] = kRevisit => InQueue(n))
  /\ [][hist'.step = "Dequeue" =>
          /\ revisit' = Tail(revisit)
          /\ hist'.node = Head(revisit)
          /\ graph' = graph
          /\ nb_visited_nodes' = nb_visited_nodes
          /\ nb_traversed_uses' = nb_traversed_uses
          /\ IF state[Head(revisit)] = kRevisit
             THEN /\ stack' = <<[node |-> Head(revisit), input_index |-> 0]>>
                  /\ state' = [state EXCEPT ![Head(revisit)] = kOnStack]
             ELSE /\ stack' = stack
                  /\ state' = state]_vars

\* A stale entry was just dropped: its node was pushed from another frame
\* and visited again while the entry waited, and nothing was pushed for it.
C19_Witness ==
  /\ hist.step = "Dequeue" /\ hist.kind = "stale"
  /\ stack = <<>>
  /\ state[hist.node] = kVisited
  /\ ~InQueue(hist.node)

\* C20. Whenever reducers are invoked on a node, the ReduceTop call that
\* invoked them has scanned every input position of the node: each input that
\* was a placeholder when the call began has been rewritten to the
\* non-placeholder end of its chain, every other input is as it was, and so
\* none of the inputs that Reduce sees is a placeholder.
C20_NoPlaceholderInputAtReduce ==
  (hist.step = "ReduceTop" /\ hist.reduced) =>
    /\ Len(hist.ins) = Len(twin.graph[hist.node].inputs)
    /\ \A k \in 1 .. Len(hist.ins) :
         /\ hist.inops[k] # kReplacementPlaceholder
         /\ hist.ins[k] =
              ChasePlaceholder(twin.graph, twin.graph[hist.node].inputs[k])
         /\ k \in hist.phins <=> hist.ins[k] # twin.graph[hist.node].inputs[k]

\* Reducers were invoked by a call that resumed a frame in mid-scan and found
\* a placeholder before the saved cursor (rewritten by the scan of lines
\* 166-181) and a chain of two placeholders.
C20_Witness ==
  /\ hist.step = "ReduceTop" /\ hist.reduced
  /\ hist.cursor > 0 /\ hist.cursor < Len(hist.ins)
  /\ \E k \in hist.phins : k <= hist.cursor
  /\ \E k \in hist.phins :
       ChainLen(twin.graph, twin.graph[hist.node].inputs[k]) = 2

====
